---------------------------- MODULE Spec2Model ----------------------------
(***************************************************************************)
(* Huffman archive codec of src/main.rs: HuffmanTree::build (frequency     *)
(* count, edge cases, greedy merge over a BinaryHeap ordered by the Ord    *)
(* impl of HuffmanNode), tree serialisation, code-table derivation,        *)
(* HuffmanArchive::compress and the HuffmanArchive::decompress automaton.  *)
(*                                                                         *)
(* Option<T> is a sequence of length 0 (None) or 1 (Some).  A BitVec is a  *)
(* sequence of BOOLEAN, a byte buffer a sequence of 0..255.  A panic of    *)
(* the Rust code (expect/unwrap on None, slice index out of range) is the  *)
(* outcome "panic"; returning None is the outcome "None".                  *)
(***************************************************************************)
EXTENDS Integers, Sequences, FiniteSets, TLC

VARIABLES
    data,           \* the input buffer handed to build/compress
    pc,             \* position of the control flow
    heap,           \* BinaryHeap<HuffmanNode> of build, as the set of its nodes
    tree,           \* Option<HuffmanTree.root> returned by build
    archive,        \* BitVec returned by compress
    archive_bytes,  \* byte buffer handed to decompress
    tree_len_hdr,   \* Option: _tree_len as read by decompress
    data_len,       \* Option: data_len as read by decompress
    bits,           \* archive_bytes.view_bits::<Msb0>()
    bit_iter,       \* 1-based index in bits of the next bit of bit_iter
    dtree,          \* Option: root of the deserialized tree
    current_node,   \* Option: node the decode walk is at
    output,         \* decoded bytes so far
    result          \* "running", "Some", "None" or "panic"

vars == <<data, pc, heap, tree, archive, archive_bytes, tree_len_hdr,
          data_len, bits, bit_iter, dtree, current_node, output, result>>

-----------------------------------------------------------------------------
(* Bounds of the model *)

NumBytes == 4
MaxLen == 4
MaxArchiveData == 3
MaxForgedBody == 2
MaxForgedDataLen == 2
MaxInflate == 8

\* Byte values the inputs are drawn from: 0, 85, 170, 255, 84, ...
Bytes == {(k * 85) % 256 : k \in 0..(NumBytes - 1)}

BufferSet(S, n) == UNION {[1..k -> S] : k \in 0..n}

-----------------------------------------------------------------------------
(* Bits and bytes *)

Pow2(n) == 2 ^ n

\* byte.view_bits::<Msb0>()
ByteBits(b) == [i \in 1..8 |-> ((b \div Pow2(8 - i)) % 2) = 1]

\* bytes.view_bits::<Msb0>()
view_bits(bytes) ==
    [i \in 1..(8 * Len(bytes)) |->
        ByteBits(bytes[((i - 1) \div 8) + 1])[((i - 1) % 8) + 1]]

RECURSIVE ShiftRightBytes(_, _)
ShiftRightBytes(n, k) == IF k = 0 THEN n ELSE ShiftRightBytes(n \div 256, k - 1)

\* the bytes of n least significant first (u64::to_le_bytes)
to_le_bytes(n) == [i \in 1..8 |-> ShiftRightBytes(n, i - 1) % 256]

\* u64::to_be_bytes
to_be_bytes(n) == [i \in 1..8 |-> ShiftRightBytes(n, 8 - i) % 256]

RECURSIVE from_be_bytes_acc(_, _, _)
from_be_bytes_acc(bytes, i, acc) ==
    IF i > Len(bytes) THEN acc
    ELSE from_be_bytes_acc(bytes, i + 1, acc * 256 + bytes[i])

\* u64::from_be_bytes
from_be_bytes(bytes) == from_be_bytes_acc(bytes, 1, 0)

\* BitVec::as_raw_slice: the storage bytes, the last one filled up with 0 bits
as_raw_slice(bv) ==
    LET n == (Len(bv) + 7) \div 8
        Bit(i) == IF i <= Len(bv) /\ bv[i] THEN 1 ELSE 0
    IN [j \in 1..n |->
          Bit(8*j - 7) * 128 + Bit(8*j - 6) * 64 + Bit(8*j - 5) * 32
        + Bit(8*j - 4) * 16 + Bit(8*j - 3) * 8 + Bit(8*j - 2) * 4
        + Bit(8*j - 1) * 2 + Bit(8*j)]

-----------------------------------------------------------------------------
(* HuffmanNode *)

\* HuffmanNode::new_leaf
new_leaf(frequency, byte) ==
    [frequency |-> frequency, byte |-> <<byte>>,
     l_child |-> <<>>, r_child |-> <<>>]

\* HuffmanNode::new_internal
new_internal(left, right) ==
    [frequency |-> left.frequency + right.frequency, byte |-> <<>>,
     l_child |-> <<left>>, r_child |-> <<right>>]

\* usize::cmp / u8::cmp
int_cmp(a, b) == IF a < b THEN "Less" ELSE IF a = b THEN "Equal" ELSE "Greater"

\* Option<u8>::cmp: None is below every Some
option_cmp(a, b) ==
    IF a = <<>> /\ b = <<>> THEN "Equal"
    ELSE IF a = <<>> THEN "Less"
    ELSE IF b = <<>> THEN "Greater"
    ELSE int_cmp(a[1], b[1])

\* impl PartialEq for HuffmanNode
eq(self, other) == self.frequency = other.frequency /\ self.byte = other.byte

\* impl Ord for HuffmanNode
cmp(self, other) ==
    LET ord == int_cmp(other.frequency, self.frequency)
    IN IF ord = "Equal" THEN option_cmp(self.byte, other.byte) ELSE ord

\* The nodes BinaryHeap::pop may return: the greatest ones under cmp.  Which
\* of several nodes that compare Equal comes out depends on the layout of the
\* heap's array, so each of them is a possible outcome.
PopSet(h) == {m \in h : \A n \in h : cmp(n, m) # "Greater"}

-----------------------------------------------------------------------------
(* HuffmanTree::build *)

\* frequency[byte] after the counting loop
frequency(d, byte) == Cardinality({i \in 1..Len(d) : d[i] = byte})

\* the leaves collected into the heap
Leaves(d) ==
    {new_leaf(frequency(d, byte), byte) :
        byte \in {b \in 0..255 : frequency(d, b) # 0}}

\* "If the file is empty, make a dummy node"
PushDummyIfEmpty(h) == IF h = {} THEN {new_leaf(0, 0)} ELSE h

\* build without the single-node edge case: a lone leaf stays the root
WrapSingleNodeOmitted(h) == h

\* the single-node edge case with a dummy leaf of byte value 1
WrapSingleNodeDummyOne(h) ==
    IF Cardinality(h) = 1
    THEN LET single_node == CHOOSE n \in h : TRUE
             dummy_node == new_leaf(0, 1)
         IN {new_internal(single_node, dummy_node)}
    ELSE h

\* "Edge case where data only has one unique character"
WrapSingleNode(h) ==
    IF Cardinality(h) = 1
    THEN LET single_node == CHOOSE n \in h : TRUE
             dummy_node == new_leaf(0, 0)
         IN {new_internal(single_node, dummy_node)}
    ELSE h

-----------------------------------------------------------------------------
(* Serialisation, code table, deserialisation *)

RECURSIVE serialize_recursive(_)
serialize_recursive(node) ==
    IF node.byte # <<>>
    THEN <<TRUE>> \o ByteBits(node.byte[1])
    ELSE <<FALSE>>
         \o (IF node.l_child # <<>>
             THEN serialize_recursive(node.l_child[1]) ELSE <<>>)
         \o (IF node.r_child # <<>>
             THEN serialize_recursive(node.r_child[1]) ELSE <<>>)

\* HuffmanTree::serialize
serialize(root) == serialize_recursive(root)

RECURSIVE build_table_recursive_swapped(_, _, _)
\* the table derivation with the bits of the two children exchanged
build_table_recursive_swapped(node, table, current_encoding) ==
    IF node.byte # <<>>
    THEN [table EXCEPT ![node.byte[1]] = current_encoding]
    ELSE LET t1 == IF node.l_child # <<>>
                   THEN build_table_recursive_swapped(
                            node.l_child[1], table,
                            Append(current_encoding, TRUE))
                   ELSE table
         IN IF node.r_child # <<>>
            THEN build_table_recursive_swapped(
                     node.r_child[1], t1, Append(current_encoding, FALSE))
            ELSE t1

RECURSIVE build_table_recursive(_, _, _)
build_table_recursive(node, table, current_encoding) ==
    IF node.byte # <<>>
    THEN [table EXCEPT ![node.byte[1]] = current_encoding]
    ELSE LET t1 == IF node.l_child # <<>>
                   THEN build_table_recursive(node.l_child[1], table,
                                              Append(current_encoding, FALSE))
                   ELSE table
         IN IF node.r_child # <<>>
            THEN build_table_recursive(node.r_child[1], t1,
                                       Append(current_encoding, TRUE))
            ELSE t1

\* HuffmanTree::get_encoding_table
get_encoding_table(root) ==
    build_table_recursive(root, [b \in 0..255 |-> <<>>], <<>>)

RECURSIVE read_byte(_, _, _, _)
\* the loop "for i in 0..8" of deserialize_recursive; pos is the first bit
read_byte(bv, pos, i, byte) ==
    IF i = 8 THEN byte
    ELSE read_byte(bv, pos, i + 1,
                   IF bv[pos + i] THEN byte + Pow2(7 - i) ELSE byte)

RECURSIVE deserialize_recursive(_, _)
\* Reads a node from bv at index pos.  ok: the node was read, and pos is the
\* index after it; otherwise the iterator returned None and the code panics.
deserialize_recursive(bv, pos) ==
    IF pos > Len(bv)
    THEN [ok |-> FALSE, node |-> <<>>, pos |-> Len(bv) + 1]
    ELSE IF bv[pos]
    THEN IF pos + 8 > Len(bv)
         THEN [ok |-> FALSE, node |-> <<>>, pos |-> Len(bv) + 1]
         ELSE [ok |-> TRUE,
               node |-> <<new_leaf(0, read_byte(bv, pos + 1, 0, 0))>>,
               pos |-> pos + 9]
    ELSE LET left == deserialize_recursive(bv, pos + 1)
         IN IF ~left.ok THEN left
            ELSE LET right == deserialize_recursive(bv, left.pos)
                 IN IF ~right.ok THEN right
                    ELSE [ok |-> TRUE,
                          node |-> <<new_internal(left.node[1], right.node[1])>>,
                          pos |-> right.pos]

-----------------------------------------------------------------------------
(* HuffmanArchive::compress *)

RECURSIVE encode_payload(_, _, _)
\* the loop appending encoding_table[byte] for each byte of data
encode_payload(d, encoding_table, i) ==
    IF i > Len(d) THEN <<>>
    ELSE encoding_table[d[i]] \o encode_payload(d, encoding_table, i + 1)

Magic == <<74, 80>>     \* b"JP"

compress(d, root) ==
    LET tree_bits == serialize(root)
        encoding_table == get_encoding_table(root)
        tree_len == Len(tree_bits)
        d_len == Len(d)
    IN view_bits(Magic)
       \o view_bits(to_be_bytes(tree_len))
       \o view_bits(to_be_bytes(d_len))
       \o tree_bits
       \o encode_payload(d, encoding_table, 1)

-----------------------------------------------------------------------------
(* HuffmanTree::build, step by step *)

\* frequency count, collection of the leaves, and the two edge cases
BuildStart ==
    /\ pc = "build"
    /\ heap' = WrapSingleNode(PushDummyIfEmpty(Leaves(data)))
    /\ pc' = "merge"
    /\ UNCHANGED <<data, tree, archive, archive_bytes, tree_len_hdr, data_len,
                   bits, bit_iter, dtree, current_node, output, result>>

\* one iteration of "while heap.len() > 1"
BuildMerge ==
    /\ pc = "merge"
    /\ Cardinality(heap) > 1
    /\ \E left \in PopSet(heap) :
         \E right \in PopSet(heap \ {left}) :
            heap' = (heap \ {left, right}) \cup {new_internal(left, right)}
    /\ UNCHANGED <<data, pc, tree, archive, archive_bytes, tree_len_hdr,
                   data_len, bits, bit_iter, dtree, current_node, output,
                   result>>

\* the loop is left; root: Box::new(heap.pop().unwrap())
BuildFinish ==
    /\ pc = "merge"
    /\ Cardinality(heap) <= 1
    /\ \E root \in PopSet(heap) :
         /\ tree' = <<root>>
         /\ heap' = heap \ {root}
    /\ pc' = "compress"
    /\ UNCHANGED <<data, archive, archive_bytes, tree_len_hdr, data_len, bits,
                   bit_iter, dtree, current_node, output, result>>

\* HuffmanArchive::compress(data, tree)
Compress ==
    /\ pc = "compress"
    /\ archive' = compress(data, tree[1])
    /\ pc' = "emit"
    /\ UNCHANGED <<data, heap, tree, archive_bytes, tree_len_hdr, data_len,
                   bits, bit_iter, dtree, current_node, output, result>>

\* the bytes of the archive reach decompress as they were written
WriteArchive ==
    /\ pc = "emit"
    /\ archive_bytes' = as_raw_slice(archive)
    /\ pc' = "decompress"
    /\ UNCHANGED <<data, heap, tree, archive, tree_len_hdr, data_len, bits,
                   bit_iter, dtree, current_node, output, result>>

-----------------------------------------------------------------------------
(* Archives that are not the output of compress *)

\* only the first k bytes of the archive reach decompress
TruncateArchive ==
    /\ pc = "emit"
    /\ \E k \in 0..(Len(as_raw_slice(archive)) - 1) :
         archive_bytes' = SubSeq(as_raw_slice(archive), 1, k)
    /\ pc' = "decompress"
    /\ UNCHANGED <<data, heap, tree, archive, tree_len_hdr, data_len, bits,
                   bit_iter, dtree, current_node, output, result>>

\* one byte of the magic value is replaced
CorruptMagic ==
    /\ pc = "emit"
    /\ \E i \in 1..2 : \E b \in {0, 74, 80} :
         /\ b # as_raw_slice(archive)[i]
         /\ archive_bytes' = [as_raw_slice(archive) EXCEPT ![i] = b]
    /\ pc' = "decompress"
    /\ UNCHANGED <<data, heap, tree, archive, tree_len_hdr, data_len, bits,
                   bit_iter, dtree, current_node, output, result>>

\* the data_len field announces more bytes than the payload holds
InflateDataLen ==
    /\ pc = "emit"
    /\ \E extra \in 1..MaxInflate :
         archive_bytes' = [as_raw_slice(archive) EXCEPT ![18] = @ + extra]
    /\ pc' = "decompress"
    /\ UNCHANGED <<data, heap, tree, archive, tree_len_hdr, data_len, bits,
                   bit_iter, dtree, current_node, output, result>>

\* bytes a forged archive's body is made of: 0x00, 0x80, 0xFF
ForgedBytes == {0, 128, 255}

\* a well-formed header followed by an arbitrary short body
ForgedArchives ==
    {Magic \o to_be_bytes(0) \o to_be_bytes(n) \o body :
        n \in 0..MaxForgedDataLen,
        body \in BufferSet(ForgedBytes, MaxForgedBody)}

-----------------------------------------------------------------------------
(* HuffmanArchive::decompress, step by step *)

\* the length and magic checks, the header fields, the bit iterator
DecompressHeader ==
    /\ pc = "decompress"
    /\ IF Len(archive_bytes) < 2
       THEN /\ result' = "None"
            /\ pc' = "done"
            /\ UNCHANGED <<tree_len_hdr, data_len, bits, bit_iter>>
       ELSE IF SubSeq(archive_bytes, 1, 2) # Magic
       THEN /\ result' = "None"
            /\ pc' = "done"
            /\ UNCHANGED <<tree_len_hdr, data_len, bits, bit_iter>>
       ELSE IF Len(archive_bytes) < 10
       THEN \* archive_bytes[2..10]: range end index out of range
            /\ result' = "panic"
            /\ pc' = "done"
            /\ UNCHANGED <<tree_len_hdr, data_len, bits, bit_iter>>
       ELSE IF Len(archive_bytes) < 18
       THEN \* archive_bytes[10..18]: range end index out of range
            /\ tree_len_hdr' = <<from_be_bytes(SubSeq(archive_bytes, 3, 10))>>
            /\ result' = "panic"
            /\ pc' = "done"
            /\ UNCHANGED <<data_len, bits, bit_iter>>
       ELSE /\ tree_len_hdr' = <<from_be_bytes(SubSeq(archive_bytes, 3, 10))>>
            /\ data_len' = <<from_be_bytes(SubSeq(archive_bytes, 11, 18))>>
            /\ bits' = view_bits(archive_bytes)
            /\ bit_iter' = 144 + 1
            /\ pc' = "deserialize"
            /\ UNCHANGED result
    /\ UNCHANGED <<data, heap, tree, archive, archive_bytes, dtree,
                   current_node, output>>

\* HuffmanTree::deserialize_shape(&mut bit_iter); output and current_node
DeserializeShape ==
    /\ pc = "deserialize"
    /\ LET r == deserialize_recursive(bits, bit_iter)
       IN /\ bit_iter' = r.pos
          /\ IF r.ok
             THEN /\ dtree' = r.node
                  /\ current_node' = r.node
                  /\ pc' = "walk"
                  /\ UNCHANGED result
             ELSE \* expect("Something wrong with bitstream") / unwrap()
                  /\ result' = "panic"
                  /\ pc' = "done"
                  /\ UNCHANGED <<dtree, current_node>>
    /\ UNCHANGED <<data, heap, tree, archive, archive_bytes, tree_len_hdr,
                   data_len, bits, output>>

\* the loop condition off by one
WalkGuardInclusive(n, len) == n <= len

\* the condition of "while output.len() < data_len as usize"
WalkGuard(n, len) == n < len

\* one iteration of the decode loop
WalkStep ==
    /\ pc = "walk"
    /\ WalkGuard(Len(output), data_len[1])
    /\ IF bit_iter > Len(bits)
       THEN \* expect("Ran out of bits before reaching data_len")
            /\ result' = "panic"
            /\ pc' = "done"
            /\ UNCHANGED <<bit_iter, current_node, output>>
       ELSE LET bit == bits[bit_iter]
                child == IF ~bit THEN current_node[1].l_child
                         ELSE current_node[1].r_child
            IN /\ bit_iter' = bit_iter + 1
               /\ IF child = <<>>
                  THEN \* as_deref().unwrap() on a missing child
                       /\ result' = "panic"
                       /\ pc' = "done"
                       /\ UNCHANGED <<current_node, output>>
                  ELSE /\ IF child[1].byte # <<>>
                          THEN /\ output' = Append(output, child[1].byte[1])
                               /\ current_node' = dtree
                          ELSE /\ current_node' = child
                               /\ UNCHANGED output
                       /\ UNCHANGED <<result, pc>>
    /\ UNCHANGED <<data, heap, tree, archive, archive_bytes, tree_len_hdr,
                   data_len, bits, dtree>>

\* the loop is left: Some(output)
WalkReturn ==
    /\ pc = "walk"
    /\ ~WalkGuard(Len(output), data_len[1])
    /\ result' = "Some"
    /\ pc' = "done"
    /\ UNCHANGED <<data, heap, tree, archive, archive_bytes, tree_len_hdr,
                   data_len, bits, bit_iter, dtree, current_node, output>>

-----------------------------------------------------------------------------
(* Specifications *)

Blank ==
    /\ heap = {}
    /\ tree = <<>>
    /\ archive = <<>>
    /\ tree_len_hdr = <<>>
    /\ data_len = <<>>
    /\ bits = <<>>
    /\ bit_iter = 0
    /\ dtree = <<>>
    /\ current_node = <<>>
    /\ output = <<>>
    /\ result = "running"

\* compress mode: an input buffer is built, compressed and decompressed again
Init ==
    /\ data \in BufferSet(Bytes, MaxLen)
    /\ pc = "build"
    /\ archive_bytes = <<>>
    /\ Blank

Next ==
    \/ BuildStart
    \/ BuildMerge
    \/ BuildFinish
    \/ Compress
    \/ WriteArchive
    \/ DecompressHeader
    \/ DeserializeShape
    \/ WalkStep
    \/ WalkReturn

Spec == Init /\ [][Next]_vars

\* decompress on arbitrary archives: damaged outputs of compress, or forged
InitArchive ==
    /\ Blank
    /\ \/ /\ data \in BufferSet(Bytes, MaxArchiveData)
          /\ pc = "build"
          /\ archive_bytes = <<>>
       \/ /\ data = <<>>
          /\ pc = "decompress"
          /\ archive_bytes \in ForgedArchives

NextArchive ==
    \/ Next
    \/ TruncateArchive
    \/ CorruptMagic
    \/ InflateDataLen

\* the decode loop is sequential code: while an iteration or the return is
\* possible, it is taken
SpecArchive ==
    InitArchive /\ [][NextArchive]_vars /\ WF_vars(WalkStep \/ WalkReturn)

-----------------------------------------------------------------------------
(* Properties *)

\* the byte values that occur in d
Occurring(d) == {d[i] : i \in 1..Len(d)}

IsPrefix(s, t) == Len(s) <= Len(t) /\ SubSeq(t, 1, Len(s)) = s

HeaderValid ==
    /\ Len(archive_bytes) >= 18
    /\ SubSeq(archive_bytes, 1, 2) = Magic

\* C1: decompress applied to the bytes of compress(D, build(D)) returns
\* exactly D: the run ends with Some(output) and output = data.
RoundTrip == pc = "done" => (result = "Some" /\ output = data)

\* C1 witness: a buffer of the largest length that uses every byte value of
\* the model's alphabet has been compressed and decompressed.
RoundTripWitness ==
    /\ pc = "done"
    /\ Len(data) = MaxLen
    /\ Occurring(data) = Bytes
    /\ result = "Some"

\* C2: decompress returns the failure value, before any tree work and
\* before reading any header field, for every archive of fewer than 18 bytes
\* and for every archive whose first 2 bytes are not "JP".
FormatErrorReturned ==
    (pc = "done" /\ ~HeaderValid) =>
        /\ result = "None"
        /\ tree_len_hdr = <<>>
        /\ data_len = <<>>
        /\ dtree = <<>>

\* the bit stream ran out before the tree was read or before data_len bytes
\* were produced
StreamExhausted ==
    /\ pc = "done"
    /\ HeaderValid
    /\ bit_iter > Len(bits)
    /\ \/ dtree = <<>>
       \/ Len(output) < data_len[1]

\* C3: when the bit stream of an archive with a valid header is exhausted
\* during tree deserialization or during the payload walk, decompress
\* returns the failure value to its caller and yields no output buffer.
TruncatedErrorReturned == StreamExhausted => result = "None"

\* C4: at every merge step the first node popped (the left child) has the
\* least frequency of the heap and, among the leaves of that frequency, the
\* least byte value; the second node popped (the right child) is the same
\* among the rest.
MergeAscending ==
    [][(pc = "merge" /\ Cardinality(heap) > 1 /\ heap' # heap) =>
        \E n \in heap' \ heap :
            LET left == n.l_child[1]
                right == n.r_child[1]
                First(x, h) ==
                    /\ x \in h
                    /\ \A m \in h : x.frequency <= m.frequency
                    /\ \A m \in h \ {x} :
                         (x.byte # <<>> /\ m.byte # <<>>
                            /\ m.frequency = x.frequency)
                         => x.byte[1] < m.byte[1]
            IN First(left, heap) /\ First(right, heap \ {left})]_vars

\* C5: for empty input the tree is a single dummy leaf (byte 0, frequency
\* 0), its serialisation is the 9 bits 1 00000000, and the archive holds the
\* header and those 9 bits only.
EmptyInputLeafRoot ==
    (data = <<>> /\ archive # <<>>) =>
        /\ tree[1] = new_leaf(0, 0)
        /\ serialize(tree[1]) = <<TRUE>> \o [i \in 1..8 |-> FALSE]
        /\ Len(archive) = 144 + 9

\* C6: every byte value that occurs in D has a non-empty code, and of two
\* distinct byte values that occur in D neither code is a prefix of the
\* other.
PrefixFree ==
    tree # <<>> =>
        LET table == get_encoding_table(tree[1])
        IN \A b \in Occurring(data) :
              /\ table[b] # <<>>
              /\ \A c \in Occurring(data) \ {b} : ~IsPrefix(table[b], table[c])

\* C6 witness: a tree has been built for a buffer with at least three
\* distinct byte values.
PrefixFreeWitness ==
    /\ tree # <<>>
    /\ Cardinality(Occurring(data)) >= 3

\* C7: bytes 0..1 of the archive are "JP", bytes 2..9 are the big-endian
\* length in bits of the serialized tree that starts at bit 144, and bytes
\* 10..17 are the big-endian length of D in bytes.
HeaderIntegrity ==
    archive # <<>> =>
        LET raw == as_raw_slice(archive)
            shape == deserialize_recursive(archive, 144 + 1)
        IN /\ Len(raw) >= 18
           /\ SubSeq(raw, 1, 2) = <<74, 80>>
           /\ shape.ok
           /\ SubSeq(archive, 144 + 1, shape.pos - 1) = serialize(tree[1])
           /\ SubSeq(raw, 3, 9) = <<0, 0, 0, 0, 0, 0, 0>>
           /\ from_be_bytes(SubSeq(raw, 3, 10)) = shape.pos - (144 + 1)
           /\ SubSeq(raw, 11, 17) = <<0, 0, 0, 0, 0, 0, 0>>
           /\ from_be_bytes(SubSeq(raw, 11, 18)) = Len(data)

\* C7 witness: an archive has been written for a buffer of the largest
\* length with at least two distinct byte values.
HeaderIntegrityWitness ==
    /\ archive # <<>>
    /\ Len(data) = MaxLen
    /\ Cardinality(Occurring(data)) >= 2

\* C8 as stated: every byte value that does not occur in D maps to the
\* empty bit sequence.
UnusedBytesEmpty ==
    tree # <<>> =>
        LET table == get_encoding_table(tree[1])
        IN \A b \in (0..255) \ Occurring(data) : table[b] = <<>>

\* C8 amended: every byte value that does not occur in D maps to the empty
\* bit sequence, except byte value 0 when D has fewer than two distinct
\* byte values (the dummy leaf is in the tree then).
UnusedBytesEmptyButDummy ==
    tree # <<>> =>
        LET table == get_encoding_table(tree[1])
        IN \A b \in (0..255) \ Occurring(data) :
              \/ table[b] = <<>>
              \/ b = 0 /\ Cardinality(Occurring(data)) < 2

\* C8 witness: a tree has been built for a buffer with one distinct byte
\* value other than 0, and the dummy leaf gives byte 0 a code.
UnusedBytesWitness ==
    /\ tree # <<>>
    /\ Cardinality(Occurring(data)) = 1
    /\ 0 \notin Occurring(data)
    /\ get_encoding_table(tree[1])[0] # <<>>

\* C9: two distinct nodes that are in the heap at the same time never
\* compare equal, so the node popped is uniquely determined.
StrictTotalOrder ==
    /\ \A m \in heap : \A n \in heap \ {m} : cmp(m, n) # "Equal"
    /\ heap # {} => Cardinality(PopSet(heap)) = 1

\* C10: the decode walk ends; a step that stays in the decode loop
\* consumes exactly one bit and is at the root again after each
\* byte it emits; the output never holds more than data_len bytes, and holds
\* exactly data_len bytes when Some(output) is returned.
WalkTerminates ==
    /\ [][(pc = "walk" /\ pc' = "walk") =>
            /\ bit_iter' = bit_iter + 1
            /\ \/ output' = output
               \/ Len(output') = Len(output) + 1 /\ current_node' = dtree]_vars
    /\ [](pc \in {"walk", "done"} /\ data_len # <<>>
            => Len(output) <= data_len[1])
    /\ [](pc = "done" /\ result = "Some" => Len(output) = data_len[1])
    /\ (pc = "walk") ~> (pc = "done")

\* C10 witness: the walk emitted a byte and then ended in the failure
\* outcome, short of data_len bytes.
WalkTerminatesWitness ==
    /\ pc = "done"
    /\ dtree # <<>>
    /\ result = "panic"
    /\ Len(output) > 0
    /\ Len(output) < data_len[1]

=============================================================================
